---- MODULE Spec2Model ----
(***************************************************************************)
(* kaminari: a P1 smart-meter reader.  A worker thread reads text lines    *)
(* from a serial port, assembles them into DataFrames (one per "!" line),  *)
(* and spawns one insert task per frame; HTTP handlers query the rows.     *)
(*                                                                         *)
(* Text is modelled as sequences of one-character strings.  An f32 is      *)
(* modelled as a fixed-point integer: the value times Scale.  Option<T>    *)
(* is a sequence of length 0 (None) or 1 (Some).                           *)
(***************************************************************************)
EXTENDS Integers, Sequences, FiniteSets, TLC

VARIABLES
    lines,      \* history: the items the line source has yielded so far
    frame,      \* read_p1: `frame`, the in-progress accumulator
    emitted,    \* history: the DataFrames the `frames` iterator has yielded
    wpc,        \* position of the read_p1 worker: "running" | "ended"
    tasks,      \* the insert tasks spawned by the for loop, in spawn order
    store,      \* the records table, in rowid (insertion) order
    clock,      \* chrono::Utc::now().timestamp()
    qpc,        \* position of the loadavg handler: "idle" | "fetch"
    qnow,       \* loadavg: `now`
    resp,       \* the last response of the loadavg handler
    vresp,      \* the last response of the values handler
    call        \* the last direct call of watts_since or of the extractor

vars == <<lines, frame, emitted, wpc, tasks, store, clock, qpc, qnow, resp,
          vresp, call>>

----------------------------------------------------------------------------
(* Bounds *)

MaxLines == 4       \* items the line source yields: the assembler alone
MaxSysLines == 3    \* items the line source yields: the whole program

----------------------------------------------------------------------------
(* Option<T> *)

None == <<>>
Some(v) == <<v>>
IsSome(o) == Len(o) = 1
Unwrap(o) == o[1]

----------------------------------------------------------------------------
(* f32 as fixed point, and the `as i32` cast *)

Scale == 1000
I32Max == 2147483647

Pow10(n) == IF n = 0 THEN 1 ELSE IF n = 1 THEN 10 ELSE IF n = 2 THEN 100
            ELSE IF n = 3 THEN 1000 ELSE 10000

\* `res as i32`: truncation toward zero, saturating at the i32 range.
AsI32(v) ==
    LET t == IF v >= 0 THEN v \div Scale ELSE -((-v) \div Scale)
    IN  IF t > I32Max THEN I32Max
        ELSE IF t < -I32Max - 1 THEN -I32Max - 1 ELSE t

----------------------------------------------------------------------------
(* The nom combinators used by parse_float.  A parse result is            *)
(* [ok, rest, val]: success, the remaining input, the produced value.     *)

DigitChars == <<"0", "1", "2", "3", "4", "5", "6", "7", "8", "9">>
IsDigit(c) == \E i \in 1..10 : DigitChars[i] = c
DigitOf(c) == (CHOOSE i \in 1..10 : DigitChars[i] = c) - 1

Drop(s, n) == SubSeq(s, n + 1, Len(s))
PErr(s) == [ok |-> FALSE, rest |-> s, val |-> 0]
POk(s, v) == [ok |-> TRUE, rest |-> s, val |-> v]

\* tag(t): the input must start with exactly t.
tag(t, s) ==
    IF Len(s) >= Len(t) /\ SubSeq(s, 1, Len(t)) = t
    THEN POk(Drop(s, Len(t)), 0) ELSE PErr(s)

\* The position of the first c in s at or after i; 0 when there is none.
RECURSIVE IndexOf(_, _, _)
IndexOf(c, s, i) ==
    IF i > Len(s) THEN 0
    ELSE IF s[i] = c THEN i ELSE IndexOf(c, s, i + 1)

\* digit0 / digit1: the length of the run of digits at the head of s.
RECURSIVE DigitRun(_)
DigitRun(s) ==
    IF s # <<>> /\ IsDigit(Head(s)) THEN 1 + DigitRun(Tail(s)) ELSE 0

RECURSIVE DigitsVal(_, _)
DigitsVal(s, acc) ==
    IF s = <<>> THEN acc ELSE DigitsVal(Tail(s), acc * 10 + DigitOf(Head(s)))

\* The first three fraction digits, as thousandths.
FracVal(s) ==
    LET d(i) == IF i <= Len(s) THEN DigitOf(s[i]) ELSE 0
    IN  d(1) * 100 + d(2) * 10 + d(3)

\* The mantissa of a float, digits [. [digits]] | . digits, given the
\* lengths of its digit runs (nFrac = -1: no "." follows the integer part).
MantissaOf(s, nInt, nFrac) ==
    IF nInt = 0 /\ nFrac <= 0 THEN PErr(s)
    ELSE POk(Drop(s, nInt + (IF nFrac >= 0 THEN 1 + nFrac ELSE 0)),
             DigitsVal(SubSeq(s, 1, nInt), 0) * Scale
             + (IF nFrac > 0 THEN FracVal(SubSeq(s, nInt + 2, nInt + 1 + nFrac))
                ELSE 0))

FractionRun(s, nInt) ==
    IF nInt < Len(s) /\ s[nInt + 1] = "." THEN DigitRun(Drop(s, nInt + 1)) ELSE -1

MantissaFrom(s, nInt) == MantissaOf(s, nInt, FractionRun(s, nInt))

FloatMantissa(s) == MantissaFrom(s, DigitRun(s))

\* The exponent digits ds after (e|E) [sign], applied to the mantissa m:
\* once e is read the digits are required (cut).
ExponentOf(s, m, neg, ds, nExp) ==
    IF nExp = 0 THEN PErr(s)
    ELSE POk(Drop(ds, nExp),
             IF neg THEN m \div Pow10(DigitsVal(SubSeq(ds, 1, nExp), 0))
             ELSE m * Pow10(DigitsVal(SubSeq(ds, 1, nExp), 0)))

ExponentFrom(s, m, neg, ds) == ExponentOf(s, m, neg, ds, DigitRun(ds))

\* [(e|E) [sign] digits]
FloatExponent(s, m) ==
    IF s = <<>> \/ Head(s) \notin {"e", "E"} THEN POk(s, m)
    ELSE IF Len(s) >= 2 /\ s[2] \in {"+", "-"}
    THEN ExponentFrom(s, m, s[2] = "-", Drop(s, 2))
    ELSE ExponentFrom(s, m, FALSE, Drop(s, 1))

WithExponent(s, m) == IF m.ok THEN FloatExponent(m.rest, m.val) ELSE PErr(s)

FloatUnsigned(s) == WithExponent(s, FloatMantissa(s))

WithSign(s, neg, r) ==
    IF ~r.ok THEN PErr(s) ELSE POk(r.rest, IF neg THEN -r.val ELSE r.val)

\* nom::number::complete::float: [sign] mantissa [exponent]
float(s) ==
    IF s # <<>> /\ Head(s) \in {"+", "-"}
    THEN WithSign(s, Head(s) = "-", FloatUnsigned(Tail(s)))
    ELSE FloatUnsigned(s)

\* opt(tuple((tag("*"), take_until(")")))): the input after the unit, or the
\* input itself when there is no complete "*...)" group.
SkipUnitNone(s) == s

SkipUnit(s) ==
    IF s # <<>> /\ Head(s) = "*" /\ IndexOf(")", s, 1) # 0
    THEN Drop(s, IndexOf(")", s, 1) - 1) ELSE s

\* terminated(float, opt(unit)) followed by tag(")")
CloseAfter(s, f) ==
    IF f.ok /\ tag(<<")">>, SkipUnit(f.rest)).ok
    THEN POk(Drop(SkipUnit(f.rest), 1), f.val) ELSE PErr(s)

ValueGroup(s, b) == IF b.ok THEN CloseAfter(s, float(b.rest)) ELSE PErr(s)

AfterId(s, a) == IF a.ok THEN ValueGroup(s, tag(<<"(">>, a.rest)) ELSE PErr(s)

\* parse_float(id): id "(" float [ "*" text-up-to-")" ] ")"
parse_float(id, s) == AfterId(s, tag(id, s))

ReplaceFirst(r, field) == IF r.ok /\ ~IsSome(field) THEN Some(r.val) ELSE field

\* if let Ok((_, res)) = ... { field.replace(res); }
Replace(r, field) == IF r.ok THEN Some(r.val) ELSE field

ReplaceI32(r, field) == IF r.ok THEN Some(AsI32(r.val)) ELSE field

try_field_f32(line, id, field) == Replace(parse_float(id, line), field)

try_field_i32(line, id, field) == ReplaceI32(parse_float(id, line), field)

----------------------------------------------------------------------------
(* DataFrame and the nine register identifiers *)

ID_delivered_1      == <<"1","-","0",":","1",".","8",".","1">>
ID_delivered_2      == <<"1","-","0",":","1",".","8",".","2">>
ID_received_1       == <<"1","-","0",":","2",".","8",".","1">>
ID_received_2       == <<"1","-","0",":","2",".","8",".","2">>
ID_current_tariff   == <<"0","-","0",":","9","6",".","1","4",".","0">>
ID_actual_delivered == <<"1","-","0",":","1",".","7",".","0">>
ID_actual_received  == <<"1","-","0",":","2",".","7",".","0">>
ID_max_power        == <<"0","-","0",":","1","7",".","0",".","0">>
ID_switch_mode      == <<"0","-","0",":","9","6",".","3",".","1","0">>

FieldNames == {"delivered_1", "delivered_2", "received_1", "received_2",
               "current_tariff", "actual_delivered", "actual_received",
               "max_power", "switch_mode"}

\* DataFrame::default()
DataFrameDefault == [f \in FieldNames |-> None]

Terminator == <<"!">>

\* The else branch of the filter_map closure: all nine extractions, in order.
ApplyLine(fr, line) ==
    [delivered_1      |-> try_field_f32(line, ID_delivered_1, fr.delivered_1),
     delivered_2      |-> try_field_f32(line, ID_delivered_2, fr.delivered_2),
     received_1       |-> try_field_f32(line, ID_received_1, fr.received_1),
     received_2       |-> try_field_f32(line, ID_received_2, fr.received_2),
     current_tariff   |-> try_field_i32(line, ID_current_tariff, fr.current_tariff),
     actual_delivered |-> try_field_f32(line, ID_actual_delivered, fr.actual_delivered),
     actual_received  |-> try_field_f32(line, ID_actual_received, fr.actual_received),
     max_power        |-> try_field_f32(line, ID_max_power, fr.max_power),
     switch_mode      |-> try_field_i32(line, ID_switch_mode, fr.switch_mode)]

----------------------------------------------------------------------------
(* The line source: BufReader::lines() over the serial port *)

OkItem(text) == [ok |-> TRUE, text |-> text]
ErrItem == [ok |-> FALSE, text |-> <<>>]

\* Lines the meter (or line noise) can deliver.
LineSet == {
    Terminator,
    \* 1-0:1.8.1(123.4*kWh)
    <<"1","-","0",":","1",".","8",".","1","(","1","2","3",".","4","*","k","W","h",")">>,
    \* 1-0:1.8.1(200.0*kWh)
    <<"1","-","0",":","1",".","8",".","1","(","2","0","0",".","0","*","k","W","h",")">>,
    \* 1-0:1.8.2(10.0*kWh)
    <<"1","-","0",":","1",".","8",".","2","(","1","0",".","0","*","k","W","h",")">>,
    \* 0-0:96.14.0(0002)
    <<"0","-","0",":","9","6",".","1","4",".","0","(","0","0","0","2",")">>,
    \* 1-0:1.8.1(abc)        malformed number
    <<"1","-","0",":","1",".","8",".","1","(","a","b","c",")">>,
    \* 0-1:24.2.1(7)         unrecognized identifier
    <<"0","-","1",":","2","4",".","2",".","1","(","7",")">>,
    \* "! "                  not the terminator
    <<"!"," ">> }

\* Lines of the full-system specification.
SysLines == {
    Terminator,
    \* 1-0:1.8.2(10.0*kWh)
    <<"1","-","0",":","1",".","8",".","2","(","1","0",".","0","*","k","W","h",")">>,
    \* 1-0:1.8.2(11.0*kWh)
    <<"1","-","0",":","1",".","8",".","2","(","1","1",".","0","*","k","W","h",")">> }

\* Wall-clock readings.
ClockVals == {0, 70, 310, 910}

----------------------------------------------------------------------------
(* read_p1: the frame assembler and the spawning for loop *)

IsTerminatorPrefix(line) == line # <<>> /\ Head(line) = "!"

\* line == "!"
IsTerminator(line) == line = Terminator

KeepFrame(fr) == fr

\* What mem::take leaves behind in `frame`.
TakeFrame(fr) == DataFrameDefault

NumPanicked(ts) == Cardinality({i \in DOMAIN ts : ts[i].st = "panicked"})

\* rocket::tokio::task::spawn(async move { ... }) for one frame.
\* panicsBefore is history: how many insert tasks had panicked by then.
NewTask(fr, ts) ==
    [frame |-> fr, st |-> "spawned", now |-> 0, panicsBefore |-> NumPanicked(ts)]

Pending(ts) == {i \in DOMAIN ts : ts[i].st \in {"spawned", "stamped"}}

ReadLineJoined(line, max) ==
    /\ wpc = "running"
    /\ Len(lines) < max
    /\ Pending(tasks) = {}
    /\ lines' = Append(lines, OkItem(line))
    /\ IF line = Terminator
       THEN /\ emitted' = Append(emitted, frame)
            /\ frame' = DataFrameDefault
            /\ tasks' = Append(tasks, NewTask(frame, tasks))
       ELSE /\ frame' = ApplyLine(frame, line)
            /\ UNCHANGED <<emitted, tasks>>
    /\ UNCHANGED <<wpc, store, clock, qpc, qnow, resp, vresp, call>>

\* The line source yields Ok(line), its max-th item at most: one run of the
\* filter_map closure and, when it returns Some(frame), one iteration of the
\* for loop.
ReadLine(line, max) ==
    /\ wpc = "running"
    /\ Len(lines) < max
    /\ lines' = Append(lines, OkItem(line))
    /\ IF IsTerminator(line)
       THEN /\ emitted' = Append(emitted, frame)
            /\ frame' = TakeFrame(frame)
            /\ tasks' = Append(tasks, NewTask(frame, tasks))
       ELSE /\ frame' = ApplyLine(frame, line)
            /\ UNCHANGED <<emitted, tasks>>
    /\ UNCHANGED <<wpc, store, clock, qpc, qnow, resp, vresp, call>>

ReadErrStop(max) ==
    /\ wpc = "running"
    /\ Len(lines) < max
    /\ lines' = Append(lines, ErrItem)
    /\ wpc' = "ended"
    /\ UNCHANGED <<frame, emitted, tasks, store, clock, qpc, qnow, resp, vresp, call>>

\* The line source yields Err(e): filter_map(Result::ok) drops the item and
\* the iterator goes on to the next one.
ReadErr(max) ==
    /\ wpc = "running"
    /\ Len(lines) < max
    /\ lines' = Append(lines, ErrItem)
    /\ UNCHANGED <<frame, emitted, wpc, tasks, store, clock, qpc, qnow, resp, vresp, call>>

\* The line source yields None: the for loop ends and read_p1 returns.
ReadEOF ==
    /\ wpc = "running"
    /\ wpc' = "ended"
    /\ UNCHANGED <<lines, frame, emitted, tasks, store, clock, qpc, qnow, resp, vresp, call>>

----------------------------------------------------------------------------
(* The spawned insert task *)

Tick ==
    /\ \E t \in ClockVals : t > clock /\ clock' = t
    /\ UNCHANGED <<lines, frame, emitted, wpc, tasks, store, qpc, qnow, resp, vresp, call>>

\* let now = chrono::Utc::now().timestamp();
TaskStamp(i) ==
    /\ tasks[i].st = "spawned"
    /\ tasks' = [tasks EXCEPT ![i].st = "stamped", ![i].now = clock]
    /\ UNCHANGED <<lines, frame, emitted, wpc, store, clock, qpc, qnow, resp, vresp, call>>

Row(t, fr) == [timestamp |-> t, rec |-> fr]

TaskInsertOkBlank(i) ==
    /\ tasks[i].st = "stamped"
    /\ store' = Append(store, Row(tasks[i].now, DataFrameDefault))
    /\ tasks' = [tasks EXCEPT ![i].st = "done"]
    /\ UNCHANGED <<lines, frame, emitted, wpc, clock, qpc, qnow, resp, vresp, call>>

\* INSERT INTO records ... .execute(&db_pool).await succeeds.
TaskInsertOk(i) ==
    /\ tasks[i].st = "stamped"
    /\ store' = Append(store, Row(tasks[i].now, tasks[i].frame))
    /\ tasks' = [tasks EXCEPT ![i].st = "done"]
    /\ UNCHANGED <<lines, frame, emitted, wpc, clock, qpc, qnow, resp, vresp, call>>

TaskInsertFailRetry(i) ==
    /\ tasks[i].st = "stamped"
    /\ tasks' = [tasks EXCEPT ![i].st = "spawned"]
    /\ UNCHANGED <<lines, frame, emitted, wpc, store, clock, qpc, qnow, resp, vresp, call>>

TaskInsertFailAbort(i) ==
    /\ tasks[i].st = "stamped"
    /\ tasks' = [tasks EXCEPT ![i].st = "panicked"]
    /\ wpc' = "ended"
    /\ UNCHANGED <<lines, frame, emitted, store, clock, qpc, qnow, resp, vresp, call>>

\* The insert fails: .expect("insert into db") panics inside the task, which
\* the runtime contains; the worker thread is untouched.
TaskInsertFail(i) ==
    /\ tasks[i].st = "stamped"
    /\ tasks' = [tasks EXCEPT ![i].st = "panicked"]
    /\ UNCHANGED <<lines, frame, emitted, wpc, store, clock, qpc, qnow, resp, vresp, call>>

----------------------------------------------------------------------------
(* Record::watts_since and the f32 arithmetic it uses *)

\* f32 values with their non-finite cases; v is the fixed-point value.
Finite(v) == [kind |-> "finite", v |-> v]
NonFinite(k) == [kind |-> k, v |-> 0]

\* Division truncated toward zero (b > 0).
TDiv(a, b) == IF a >= 0 THEN a \div b ELSE -((-a) \div b)

\* a / b for a fixed-point a and an integer-valued b >= 0, as IEEE division.
F32DivInt(a, b) ==
    IF b # 0 THEN Finite(TDiv(a, b))
    ELSE IF a > 0 THEN NonFinite("inf")
    ELSE IF a < 0 THEN NonFinite("-inf")
    ELSE NonFinite("NaN")

F32MulInt(x, k) == IF x.kind = "finite" THEN Finite(x.v * k) ELSE x

\* sorted.sort_by_key(|r| r.timestamp) on [self, other]: stable.
SortedPair(self, other) ==
    IF other.timestamp < self.timestamp THEN <<other, self>> ELSE <<self, other>>

\* delivered_2.unwrap() panics on either row.
WattsPanics(self, other) ==
    ~IsSome(self.rec.delivered_2) \/ ~IsSome(other.rec.delivered_2)

watts_since_signed(self, other) ==
    LET sorted == SortedPair(self, other)
        delta == Unwrap(self.rec.delivered_2) - Unwrap(other.rec.delivered_2)
    IN  F32MulInt(F32DivInt(delta * 3600,
                            sorted[2].timestamp - sorted[1].timestamp), 1000)

\* (max.delivered_2 - min.delivered_2) * 3600.0
\*     / (max.timestamp - min.timestamp) as f32 * 1000.0
watts_since(self, other) ==
    LET sorted == SortedPair(self, other)
        min == sorted[1]
        max == sorted[2]
        delta == Unwrap(max.rec.delivered_2) - Unwrap(min.rec.delivered_2)
    IN  F32MulInt(F32DivInt(delta * 3600, max.timestamp - min.timestamp), 1000)

\* format!("{:.0}", x): the nearest integer, ties to even; "inf", "-inf", "NaN".
Format0(x) ==
    IF x.kind # "finite" THEN x
    ELSE LET a == IF x.v >= 0 THEN x.v ELSE -x.v
             q == a \div Scale
             r == a % Scale
             n == IF 2 * r > Scale \/ (2 * r = Scale /\ q % 2 = 1) THEN q + 1 ELSE q
         IN  Finite(IF x.v >= 0 THEN n ELSE -n)

----------------------------------------------------------------------------
(* loadavg *)

FetchRowsInclusive(st, now) ==
    SelectSeq(st, LAMBDA r : r.timestamp >= now - 15 * 60 - 10)

\* SELECT ... FROM records WHERE timestamp > ? - 15 * 60 - 10
\* (no ORDER BY: a table scan, rows come back in rowid order)
FetchRows(st, now) ==
    SelectSeq(st, LAMBDA r : r.timestamp > now - 15 * 60 - 10)

\* Iterator::min_by_key(|r| r.timestamp): the first of the minimal elements.
min_by_key(rows) ==
    IF rows = <<>> THEN None
    ELSE LET i == CHOOSE i \in DOMAIN rows :
                    /\ \A j \in DOMAIN rows : rows[i].timestamp <= rows[j].timestamp
                    /\ \A j \in 1..(i - 1) : rows[j].timestamp > rows[i].timestamp
         IN  Some(rows[i])

WindowRowsSwapped(res, now, w) ==
    SelectSeq(res, LAMBDA r : r.timestamp > now - (IF w = 1 THEN 5 ELSE 1) * 60 - 10)

WindowRowsInclusive(res, now, w) ==
    SelectSeq(res, LAMBDA r : r.timestamp >= now - w * 60 - 10)

\* res.iter().filter(|r| r.timestamp > now - w * 60 - 10)
WindowRows(res, now, w) ==
    SelectSeq(res, LAMBDA r : r.timestamp > now - w * 60 - 10)

\* res.last().unwrap()
EndRow(res) == res[Len(res)]

NoSel == [start_15 |-> None, start_5 |-> None, start_1 |-> None, end |-> None]
NoResponse == [kind |-> "none", status |-> 0, msg |-> "", body |-> <<>>,
               res |-> <<>>, now |-> 0, sel |-> NoSel]

Response(kind, status, msg, body, res, now, sel) ==
    [kind |-> kind, status |-> status, msg |-> msg, body |-> body,
     res |-> res, now |-> now, sel |-> sel]

\* The handler after fetch_all returned Ok(res).  The response records the
\* rows bound to min_15_start, min_5_start, min_1_start and end before the
\* handler returned or panicked.
LoadavgBody(res, now) ==
    IF res = <<>>
    THEN Response("err", 500, "no records", <<>>, res, now, NoSel)
    ELSE
    LET s15 == min_by_key(res)
        s5  == min_by_key(WindowRows(res, now, 5))
        s1  == min_by_key(WindowRows(res, now, 1))
    IN  IF ~IsSome(s5)
        THEN Response("panic", 500, "", <<>>, res, now,
                      [NoSel EXCEPT !.start_15 = s15])
        ELSE IF ~IsSome(s1)
        THEN Response("panic", 500, "", <<>>, res, now,
                      [NoSel EXCEPT !.start_15 = s15, !.start_5 = s5])
        ELSE
        LET end == EndRow(res)
            sel == [start_15 |-> s15, start_5 |-> s5, start_1 |-> s1,
                    end |-> Some(end)]
        IN  IF \/ WattsPanics(end, Unwrap(s1))
               \/ WattsPanics(end, Unwrap(s5))
               \/ WattsPanics(end, Unwrap(s15))
            THEN Response("panic", 500, "", <<>>, res, now, sel)
            ELSE Response("ok", 200, "",
                          << Format0(watts_since(end, Unwrap(s1))),
                             Format0(watts_since(end, Unwrap(s5))),
                             Format0(watts_since(end, Unwrap(s15))) >>,
                          res, now, sel)

\* let now = chrono::Utc::now().timestamp();
LoadavgStart ==
    /\ qpc = "idle"
    /\ qpc' = "fetch"
    /\ qnow' = clock
    /\ resp' = NoResponse
    /\ UNCHANGED <<lines, frame, emitted, wpc, tasks, store, clock, vresp, call>>

\* fetch_all returns Ok(res) and the handler runs to its end.
LoadavgFetch ==
    /\ qpc = "fetch"
    /\ qpc' = "idle"
    /\ resp' = LoadavgBody(FetchRows(store, qnow), qnow)
    /\ UNCHANGED <<lines, frame, emitted, wpc, tasks, store, clock, qnow, vresp, call>>

\* fetch_all returns Err(e): map_err and `?` return a 500.
LoadavgFetchErr ==
    /\ qpc = "fetch"
    /\ qpc' = "idle"
    /\ resp' = Response("err", 500, "store error", <<>>, <<>>, qnow, NoSel)
    /\ UNCHANGED <<lines, frame, emitted, wpc, tasks, store, clock, qnow, vresp, call>>

----------------------------------------------------------------------------
(* Specifications *)

\* No request to /values answered yet; no direct call made yet.
NoValuesResponse == [kind |-> "none", status |-> 0, queried |-> FALSE,
                     from |-> None, to |-> None, body |-> <<>>]
NoCall == [fn |-> "none"]

\* A fresh database: the table is empty when the program starts.
Init ==
    /\ lines = <<>>
    /\ frame = DataFrameDefault
    /\ emitted = <<>>
    /\ wpc = "running"
    /\ tasks = <<>>
    /\ store = <<>>
    /\ clock = 0
    /\ qpc = "idle"
    /\ qnow = 0
    /\ resp = NoResponse
    /\ vresp = NoValuesResponse
    /\ call = NoCall

\* The tables an earlier run of the program can have left in ./dev.db:
\* nothing, or one row of a frame that carried 1-0:1.8.2(10.0*kWh).
InitStores ==
    { <<>>,
      << Row(0, [DataFrameDefault EXCEPT !.delivered_2 = Some(10 * Scale)]) >> }

InitDb ==
    /\ lines = <<>>
    /\ frame = DataFrameDefault
    /\ emitted = <<>>
    /\ wpc = "running"
    /\ tasks = <<>>
    /\ store \in InitStores
    /\ clock = 0
    /\ qpc = "idle"
    /\ qnow = 0
    /\ resp = NoResponse
    /\ vresp = NoValuesResponse
    /\ call = NoCall

\* The frame assembler alone, over every kind of line.
NextAsm ==
    \/ \E line \in LineSet : ReadLine(line, MaxLines)
    \/ ReadErr(MaxLines)
    \/ ReadEOF

SpecAsm == Init /\ [][NextAsm]_vars

\* Ingestion: the worker over a failing line source, the insert tasks over
\* a failing store, and the clock.
NextIngest ==
    \/ \E line \in SysLines : ReadLine(line, MaxSysLines)
    \/ ReadErr(MaxSysLines)
    \/ ReadEOF
    \/ Tick
    \/ \E i \in DOMAIN tasks : TaskStamp(i)
    \/ \E i \in DOMAIN tasks : TaskInsertOk(i)
    \/ \E i \in DOMAIN tasks : TaskInsertFail(i)

SpecIngest == Init /\ [][NextIngest]_vars

\* The loadavg handler running against the rows the pipeline inserts.  A
\* failed insert leaves the table as if its task had not run yet, so the
\* tables reached here are the tables the program can reach.  The database
\* file outlives the process, so the table may hold a row at start.
Next ==
    \/ \E line \in SysLines : ReadLine(line, MaxSysLines)
    \/ Tick
    \/ \E i \in DOMAIN tasks : TaskStamp(i)
    \/ \E i \in DOMAIN tasks : TaskInsertOk(i)
    \/ LoadavgStart
    \/ LoadavgFetch
    \/ LoadavgFetchErr

Spec == InitDb /\ [][Next]_vars

----------------------------------------------------------------------------
(* values *)

\* One element of Vec<ValuesResponse>: the four selected columns of a row.
ValuesResponse(r) ==
    [timestamp |-> r.timestamp, delivered_1 |-> r.rec.delivered_1,
     delivered_2 |-> r.rec.delivered_2, current_tariff |-> r.rec.current_tariff]

MapRows(rows) == [k \in DOMAIN rows |-> ValuesResponse(rows[k])]

BetweenRowsHalfOpen(st, from, to) ==
    SelectSeq(st, LAMBDA r : from <= r.timestamp /\ r.timestamp < to)

\* ... FROM records WHERE timestamp BETWEEN ? AND ?
BetweenRows(st, from, to) ==
    SelectSeq(st, LAMBDA r : from <= r.timestamp /\ r.timestamp <= to)

ValuesAnswer(kind, status, queried, from, to, body) ==
    [kind |-> kind, status |-> status, queried |-> queried,
     from |-> from, to |-> to, body |-> body]

OrZero(o) == IF IsSome(o) THEN Unwrap(o) ELSE 0

values_defaulting(from, to, st, dbOk) ==
    IF ~dbOk
    THEN ValuesAnswer("err", 500, TRUE, from, to, <<>>)
    ELSE ValuesAnswer("ok", 200, TRUE, from, to,
                      MapRows(BetweenRows(st, OrZero(from), OrZero(to))))

\* The handler: 400 before any query when a parameter is missing; otherwise
\* the query runs, and its failure is a 500.
values(from, to, st, dbOk) ==
    IF ~(IsSome(from) /\ IsSome(to))
    THEN ValuesAnswer("err", 400, FALSE, from, to, <<>>)
    ELSE IF ~dbOk
    THEN ValuesAnswer("err", 500, TRUE, from, to, <<>>)
    ELSE ValuesAnswer("ok", 200, TRUE, from, to,
                      MapRows(BetweenRows(st, Unwrap(from), Unwrap(to))))

\* The values of the query parameters: absent, or one of the clock's values.
ParamVals == {None} \cup {Some(t) : t \in ClockVals \ {910}}

\* GET /values answered with fetch_all returning Ok, or before the query.
Values(from, to) ==
    /\ vresp' = values(from, to, store, TRUE)
    /\ UNCHANGED <<lines, frame, emitted, wpc, tasks, store, clock, qpc, qnow, resp, call>>

\* GET /values with both parameters, and fetch_all returns Err(e).
ValuesFetchErr(from, to) ==
    /\ IsSome(from) /\ IsSome(to)
    /\ vresp' = values(from, to, store, FALSE)
    /\ UNCHANGED <<lines, frame, emitted, wpc, tasks, store, clock, qpc, qnow, resp, call>>

MaxValLines == 2

\* The values handler running against the rows the pipeline inserts.
NextValues ==
    \/ \E line \in SysLines : ReadLine(line, MaxValLines)
    \/ Tick
    \/ \E i \in DOMAIN tasks : TaskStamp(i)
    \/ \E i \in DOMAIN tasks : TaskInsertOk(i)
    \/ \E from \in ParamVals, to \in ParamVals : Values(from, to)
    \/ \E from \in ParamVals, to \in ParamVals : ValuesFetchErr(from, to)

SpecValues == InitDb /\ [][NextValues]_vars

\* Record::watts_since called on its own, on any two rows: it is a pub fn of
\* Record, and the rows of ./dev.db are not limited to the ones this run
\* inserted.
RateTimes == {0, 70, 3600, 7200}

RateD2 == {None, Some(10 * Scale), Some(10 * Scale + Scale \div 2), Some(11 * Scale)}

RateRows ==
    { Row(t, [DataFrameDefault EXCEPT !.delivered_2 = d]) :
        t \in RateTimes, d \in RateD2 }

Panic == [kind |-> "panic", v |-> 0]

CallWattsSince(a, b) ==
    /\ call' = [fn |-> "watts_since", self |-> a, other |-> b,
                ret |-> IF WattsPanics(a, b) THEN Panic ELSE watts_since(a, b)]
    /\ UNCHANGED <<lines, frame, emitted, wpc, tasks, store, clock, qpc, qnow, resp, vresp>>

NextRate == \E a \in RateRows, b \in RateRows : CallWattsSince(a, b)

SpecRate == Init /\ [][NextRate]_vars

----------------------------------------------------------------------------
(* Reading the history: the successfully read lines, cut at the "!" lines *)

Last(s) == s[Len(s)]

\* The texts of the Ok items, in order.
Txt ==
    LET oks == SelectSeq(lines, LAMBDA it : it.ok)
    IN  [i \in DOMAIN oks |-> oks[i].text]

NumTerm(txt) == Cardinality({i \in DOMAIN txt : txt[i] = Terminator})

\* The position in txt of the k-th "!" line.
TermIdx(txt, k) ==
    CHOOSE i \in DOMAIN txt :
        /\ txt[i] = Terminator
        /\ Cardinality({j \in 1..i : txt[j] = Terminator}) = k

\* The positions of the lines between the (k-1)-th and the k-th "!" line.
Segment(txt, k) ==
    LET lo == IF k = 1 THEN 1 ELSE TermIdx(txt, k - 1) + 1
    IN  lo..(TermIdx(txt, k) - 1)

\* The register identifier and the type of each field (lines 80-88).
FieldId ==
    [delivered_1      |-> ID_delivered_1,
     delivered_2      |-> ID_delivered_2,
     received_1       |-> ID_received_1,
     received_2       |-> ID_received_2,
     current_tariff   |-> ID_current_tariff,
     actual_delivered |-> ID_actual_delivered,
     actual_received  |-> ID_actual_received,
     max_power        |-> ID_max_power,
     switch_mode      |-> ID_switch_mode]

IntFields == {"current_tariff", "switch_mode"}

\* The positions, among `pos`, of the lines on which extraction for f succeeds.
Hits(txt, pos, f) == {i \in pos : parse_float(FieldId[f], txt[i]).ok}

Decoded(line, f) ==
    LET v == parse_float(FieldId[f], line).val
    IN  IF f \in IntFields THEN AsI32(v) ELSE v

\* The value of the last successful extraction among `pos`, if any.
LastWrite(txt, pos, f) ==
    LET hits == Hits(txt, pos, f)
    IN  IF hits = {} THEN None
        ELSE Some(Decoded(txt[CHOOSE i \in hits : \A j \in hits : j <= i], f))

----------------------------------------------------------------------------
(* C1: right after a "!" line is processed the accumulator has all nine    *)
(* fields absent, and a field present in an emitted record was set by a    *)
(* line of that record's own frame, never carried over from the frame      *)
(* before it.                                                              *)
C1_ResetOnTerminator ==
    /\ (lines # <<>> /\ Last(lines) = OkItem(Terminator))
          => \A f \in FieldNames : frame[f] = None
    /\ \A k \in DOMAIN emitted : \A f \in FieldNames :
          IsSome(emitted[k][f]) => Hits(Txt, Segment(Txt, k), f) # {}

\* Frame 1 set a field that frame 2 did not set, and frame 2 was emitted.
C1_Witness ==
    /\ Len(emitted) >= 2
    /\ Last(lines) = OkItem(Terminator)
    /\ \E f \in FieldNames : IsSome(emitted[1][f]) /\ emitted[2][f] = None

(* C2: the number of emitted records equals the number of "!" lines read;  *)
(* a record is appended exactly on the step that consumes a "!" line and   *)
(* is the accumulator of that moment; a step that consumes another line,   *)
(* an error or the end of input emits nothing, so the fields accumulated   *)
(* after the last "!" are in no record.                                    *)
C2_OneRecordPerTerminator ==
    /\ [](Len(emitted) = NumTerm(Txt))
    /\ [][IF lines' # lines /\ Last(lines') = OkItem(Terminator)
          THEN emitted' = Append(emitted, frame)
          ELSE emitted' = emitted]_vars

\* The input ended in the middle of a frame, after a complete one.
C2_Witness ==
    /\ wpc = "ended"
    /\ Len(emitted) >= 1
    /\ \E f \in FieldNames : IsSome(frame[f])

(* C3: each field of the k-th emitted record is the value decoded from the *)
(* last line, between the (k-1)-th and the k-th "!", on which extraction   *)
(* for that field's identifier succeeded, and absent when there is none.   *)
(* The lines 1-0:1.8.1(123.4*kWh), !, 1-0:1.8.1(200.0*kWh), ! give two     *)
(* records with delivered_1 123.4 and 200.0 and nothing else.              *)
C3_Example ==
    << <<"1","-","0",":","1",".","8",".","1","(","1","2","3",".","4","*","k","W","h",")">>,
       Terminator,
       <<"1","-","0",":","1",".","8",".","1","(","2","0","0",".","0","*","k","W","h",")">>,
       Terminator >>

C3_LastWriteWins ==
    /\ \A k \in DOMAIN emitted : \A f \in FieldNames :
          emitted[k][f] = LastWrite(Txt, Segment(Txt, k), f)
    /\ (lines = [i \in 1..4 |-> OkItem(C3_Example[i])])
          => emitted = << [DataFrameDefault EXCEPT !.delivered_1 = Some(123400)],
                          [DataFrameDefault EXCEPT !.delivered_1 = Some(200000)] >>

\* A frame in which one identifier was extracted twice, with different values.
C3_Witness ==
    \E k \in DOMAIN emitted : \E f \in FieldNames :
        \E i, j \in Hits(Txt, Segment(Txt, k), f) :
            /\ i < j
            /\ Decoded(Txt[i], f) # Decoded(Txt[j], f)
            /\ emitted[k][f] = Some(Decoded(Txt[j], f))

----------------------------------------------------------------------------
(* The loadavg handler's last response *)

\* The rows the handler bound to end, min_1_start, min_5_start, min_15_start.
SelectedRows ==
    { Unwrap(o) : o \in { x \in {resp.sel.end, resp.sel.start_1,
                                 resp.sel.start_5, resp.sel.start_15} : IsSome(x) } }

SelectedStarts ==
    { Unwrap(o) : o \in { x \in {resp.sel.start_1, resp.sel.start_5,
                                 resp.sel.start_15} : IsSome(x) } }

(* C4: the row loadavg uses as `end` has the greatest timestamp of all the *)
(* rows the 15-minute query returned, whatever order the rows were         *)
(* inserted in.                                                            *)
C4_EndIsLatest ==
    IsSome(resp.sel.end) =>
        \A i \in DOMAIN resp.res :
            resp.res[i].timestamp <= Unwrap(resp.sel.end).timestamp

(* C5: when a selected start row and the end row have equal timestamps     *)
(* (and delivered_2 is present on them), loadavg reports a failure and     *)
(* returns no rate computed by dividing by zero elapsed time.              *)
C5_AmbiguousWindowReported ==
    ( /\ IsSome(resp.sel.end)
      /\ \A r \in SelectedRows : IsSome(r.rec.delivered_2)
      /\ \E r \in SelectedStarts : r.timestamp = Unwrap(resp.sel.end).timestamp )
    => (resp.kind = "err" /\ resp.body = <<>>)

(* C6: when a row selected as start or end has delivered_2 absent, loadavg *)
(* reports a failure to the caller: it does not abort (panic) and does not *)
(* answer with rates.                                                      *)
C6_IncompleteSampleReported ==
    ( /\ IsSome(resp.sel.end)
      /\ \E r \in SelectedRows : ~IsSome(r.rec.delivered_2) )
    => resp.kind = "err"

(* C7: when the 15-minute result set is non-empty but holds no row with    *)
(* timestamp > now - 5*60 - 10 (or none with timestamp > now - 1*60 - 10), *)
(* loadavg reports a failure: it does not abort and returns no rate.       *)
C7_WindowNoDataReported ==
    ( /\ resp.kind # "none"
      /\ resp.res # <<>>
      /\ \E w \in {1, 5} : \A i \in DOMAIN resp.res :
            ~(resp.res[i].timestamp > resp.now - w * 60 - 10) )
    => resp.kind = "err"

(* C8: when the handler reads the table and no stored row has              *)
(* timestamp > now - 15*60 - 10, it returns a failure (500, "no records",  *)
(* or the store's error) with no rate and without selecting any row.       *)
C8_NoRecords ==
    [][ ( /\ qpc = "fetch"
          /\ qpc' = "idle"
          /\ \A i \in DOMAIN store : ~(store[i].timestamp > qnow - 15 * 60 - 10) )
        => ( /\ resp'.kind = "err"
             /\ resp'.status = 500
             /\ resp'.msg \in {"no records", "store error"}
             /\ resp'.body = <<>>
             /\ resp'.sel = NoSel ) ]_vars

\* The table holds rows, all of them too old, and the handler said so.
C8_Witness ==
    /\ store # <<>>
    /\ resp.kind = "err"
    /\ resp.msg = "no records"

----------------------------------------------------------------------------
(* The worker, read errors and insert failures *)

ErrSeen == \E i \in DOMAIN lines : ~lines[i].ok

\* The positions in Txt after the last "!" line.
OpenSegment ==
    LET n == NumTerm(Txt)
    IN  (IF n = 0 THEN 1 ELSE TermIdx(Txt, n) + 1)..Len(Txt)

C10_WorkerSurvivesInsertFailure ==
    /\ [][NumPanicked(tasks') > NumPanicked(tasks)
            => (wpc' = wpc /\ frame' = frame /\ emitted' = emitted
                /\ lines' = lines)]_vars
    /\ [][(wpc = "running" /\ wpc' = "ended") => tasks' = tasks]_vars
    /\ [][(NumPanicked(tasks) > 0 /\ lines' # lines
           /\ Last(lines') = OkItem(Terminator))
            => ( /\ emitted' = Append(emitted, frame)
                 /\ Len(tasks') = Len(tasks) + 1
                 /\ Last(tasks').frame = frame
                 /\ Last(tasks').st = "spawned" )]_vars

\* A record emitted after an insert had failed was inserted.
C10_Witness ==
    \E j \in DOMAIN tasks : tasks[j].panicsBefore >= 1 /\ tasks[j].st = "done"

----------------------------------------------------------------------------
(* The insert tasks *)

(* C11: the worker never waits for an insert.  While inserts are pending   *)
(* the worker can still read a "!" line and emit the next record; and      *)
(* every step that changes the table appends, in one step, one whole row:  *)
(* the timestamp and the nine fields of one task's frame.                  *)
C11_WorkerNeverWaits ==
    /\ []( (Pending(tasks) # {} /\ wpc = "running" /\ Len(lines) < MaxSysLines)
             => ENABLED ReadLine(Terminator, MaxSysLines) )
    /\ [](\A k \in DOMAIN store :
             DOMAIN store[k] = {"timestamp", "rec"}
             /\ DOMAIN store[k].rec = FieldNames)
    /\ [][store' # store
            => \E i \in DOMAIN tasks :
                  /\ tasks[i].st = "stamped"
                  /\ store' = Append(store, Row(tasks[i].now, tasks[i].frame))]_vars

\* Record 2 was emitted while the insert of record 1 was pending, and its
\* insert completed first.
C11_Witness ==
    /\ Len(tasks) >= 2
    /\ 1 \in Pending(tasks)
    /\ tasks[2].st = "done"
    /\ Len(store) = 1

Done(ts) == {i \in DOMAIN ts : ts[i].st = "done"}

Panicked(ts) == {i \in DOMAIN ts : ts[i].st = "panicked"}

TaskRank(t) == CASE t.st = "spawned" -> 0
                 [] t.st = "stamped" -> 1
                 [] OTHER -> 2

(* C12: every emitted record is handed to exactly one insert task, in      *)
(* emission order; the table holds one row per completed insert and none   *)
(* for a pending or failed one; a task only moves forward (spawned,        *)
(* stamped, then done or panicked), so an insert is attempted at most once *)
(* and a failed record never gets a row later.                             *)
C12_AtMostOnce ==
    /\ [](/\ Len(tasks) = Len(emitted)
          /\ \A i \in DOMAIN tasks : tasks[i].frame = emitted[i]
          /\ Len(store) = Cardinality(Done(tasks)))
    /\ [][/\ Len(tasks') >= Len(tasks)
          /\ \A i \in DOMAIN tasks :
                /\ TaskRank(tasks'[i]) >= TaskRank(tasks[i])
                /\ TaskRank(tasks[i]) = 2 => tasks'[i] = tasks[i]
                /\ tasks'[i].frame = tasks[i].frame
          /\ (Panicked(tasks) # {} /\ store' # store)
                => \E i \in DOMAIN tasks \ Panicked(tasks) :
                      store' = Append(store, Row(tasks[i].now, tasks[i].frame))]_vars

\* One insert failed and a later one succeeded: the table holds one row, the
\* later record's.
C12_Witness ==
    /\ Len(emitted) = 2
    /\ tasks[1].st = "panicked"
    /\ tasks[2].st = "done"
    /\ store = <<Row(tasks[2].now, emitted[2])>>

----------------------------------------------------------------------------
(* watts_since *)

Present(r) == IsSome(r.rec.delivered_2)

(* C13: a.watts_since(b) equals b.watts_since(a) for every two rows whose  *)
(* delivered_2 is present, whatever their timestamps.                      *)
C13_Symmetric ==
    (call.fn = "watts_since" /\ Present(call.self) /\ Present(call.other))
        => call.ret = watts_since(call.other, call.self)

\* The earlier and the later of two rows, by timestamp.
Earlier(a, b) == IF a.timestamp <= b.timestamp THEN a ELSE b
Later(a, b) == IF a.timestamp <= b.timestamp THEN b ELSE a

Abs(n) == IF n >= 0 THEN n ELSE -n

(* C14: for two rows with distinct timestamps and delivered_2 present, the *)
(* result is (delivered_2 of the later row - delivered_2 of the earlier    *)
(* row) * 3600 / (seconds between them) * 1000, in either argument order   *)
(* (to within one unit of the last fixed-point digit of the quotient); the *)
(* rows {t 0, 10.0} and {t 3600, 11.0} give 1000.                          *)
C14_RateFormula ==
    (call.fn = "watts_since" /\ Present(call.self) /\ Present(call.other)
        /\ call.self.timestamp # call.other.timestamp)
    => LET lo == Earlier(call.self, call.other)
           hi == Later(call.self, call.other)
           dt == hi.timestamp - lo.timestamp
           dv == Unwrap(hi.rec.delivered_2) - Unwrap(lo.rec.delivered_2)
       IN  /\ call.ret.kind = "finite"
           /\ call.ret.v % 1000 = 0
           /\ Abs((call.ret.v \div 1000) * dt - dv * 3600) < dt
           /\ ({call.self.timestamp, call.other.timestamp} = {0, 3600}
               /\ Unwrap(lo.rec.delivered_2) = 10 * Scale
               /\ Unwrap(hi.rec.delivered_2) = 11 * Scale)
              => Format0(call.ret) = Finite(1000)

\* The later row is the receiver in one call and the argument in another;
\* here the earlier row is the receiver and the rate is the example's 1000.
C14_Witness ==
    /\ call.fn = "watts_since"
    /\ call.self.timestamp = 0
    /\ call.other.timestamp = 3600
    /\ call.self.rec.delivered_2 = Some(10 * Scale)
    /\ call.other.rec.delivered_2 = Some(11 * Scale)
    /\ Format0(call.ret) = Finite(1000)

----------------------------------------------------------------------------
(* Window selection *)

Windows == {1, 5, 15}

StartOf(sel, w) == CASE w = 1 -> sel.start_1
                     [] w = 5 -> sel.start_5
                     [] OTHER -> sel.start_15

(* C15: when the handler answers, the start row it selected for window w   *)
(* (1, 5 or 15 minutes) is a stored row with timestamp > now - 60 w - 10,  *)
(* and no stored row over that bound has a smaller timestamp; a row whose  *)
(* timestamp equals the bound is never selected.                           *)
C15_StartSelection ==
    [][(qpc = "fetch" /\ qpc' = "idle")
        => \A w \in Windows :
             LET s == StartOf(resp'.sel, w)
                 bound == qnow - 60 * w - 10
             IN  IsSome(s)
                 => /\ \E k \in DOMAIN store : store[k] = Unwrap(s)
                    /\ Unwrap(s).timestamp > bound
                    /\ \A k \in DOMAIN store :
                          store[k].timestamp > bound
                             => Unwrap(s).timestamp <= store[k].timestamp]_vars

\* The one-minute start was selected while the result set held a row exactly
\* at the one-minute bound, which was passed over.
C15_Witness ==
    /\ resp.kind = "ok"
    /\ IsSome(resp.sel.start_1)
    /\ \E k \in DOMAIN resp.res : resp.res[k].timestamp = resp.now - 60 - 10
    /\ Unwrap(resp.sel.start_1).timestamp > resp.now - 60 - 10
    /\ Unwrap(resp.sel.start_5).timestamp = resp.now - 60 - 10

----------------------------------------------------------------------------
(* Range query *)

\* A step of the values handler that answered a request.
ValuesStep == vresp' # vresp /\ store' = store

InRange(st, from, to) ==
    {k \in DOMAIN st : from <= st[k].timestamp /\ st[k].timestamp <= to}

(* C16: with both bounds given and the store answering, the range query    *)
(* succeeds (200) and its body holds exactly the stored rows with          *)
(* from <= timestamp <= to: each such row once, in table order, nothing    *)
(* else; the body is empty, still a success, when no row qualifies, as     *)
(* when from > to.                                                         *)
C16_RangeInclusive ==
    [][(ValuesStep /\ IsSome(vresp'.from) /\ IsSome(vresp'.to)
          /\ vresp'.status # 500)
        => LET from == Unwrap(vresp'.from)
               to == Unwrap(vresp'.to)
               hit == InRange(store, from, to)
               body == vresp'.body
           IN  /\ vresp'.kind = "ok" /\ vresp'.status = 200
               /\ Len(body) = Cardinality(hit)
               /\ \A k \in hit :
                     body[Cardinality({j \in hit : j <= k})] = ValuesResponse(store[k])
               /\ (from > to \/ hit = {}) => body = <<>>]_vars

\* The answer holds a row at each end of the range and leaves out a stored
\* row outside it.
C16_Witness ==
    /\ vresp.kind = "ok"
    /\ IsSome(vresp.from) /\ IsSome(vresp.to)
    /\ Unwrap(vresp.from) < Unwrap(vresp.to)
    /\ Len(vresp.body) >= 2
    /\ vresp.body[1].timestamp = Unwrap(vresp.from)
    /\ vresp.body[Len(vresp.body)].timestamp = Unwrap(vresp.to)
    /\ Len(store) > Len(vresp.body)

(* C17: a request to the range endpoint without `from`, without `to`, or   *)
(* without both is answered 400, and the store is not queried for it.      *)
C17_MissingBound ==
    (vresp.kind # "none" /\ ~(IsSome(vresp.from) /\ IsSome(vresp.to)))
        => /\ vresp.kind = "err"
           /\ vresp.status = 400
           /\ ~vresp.queried
           /\ vresp.body = <<>>

\* A request with only `to` was answered while the table held a row.
C17_Witness ==
    /\ vresp.kind = "err"
    /\ vresp.status = 400
    /\ ~IsSome(vresp.from) /\ IsSome(vresp.to)
    /\ store # <<>>

----------------------------------------------------------------------------
(* Extraction *)

\* Numeric literals with the value each denotes (times Scale).
Literals == {
    [text |-> <<"1","2","3",".","4">>, val |-> 123400],
    [text |-> <<"0","0","0","2">>,     val |-> 2000],
    [text |-> <<"-","1",".","5">>,     val |-> -1500],
    [text |-> <<"1","e","2">>,         val |-> 100000],
    [text |-> <<"7">>,                 val |-> 7000] }

\* Unit texts: kWh, the empty text, text holding ")" and text holding "*".
Units == { <<"k","W","h">>, <<>>, <<"k",")","W">>, <<"m","*","s">> }

WithUnit(id, v, u) == id \o <<"(">> \o v \o <<"*">> \o u \o <<")">>
Bare(id, v) == id \o <<"(">> \o v \o <<")">>

\* Lines that do not start with one of the nine identifiers.
OtherLines == {
    Terminator,
    <<>>,
    <<"(","7",")">>,
    Bare(<<"0","-","1",":","2","4",".","2",".","1">>, <<"7">>),
    Bare(<<"1","-","0",":","1",".","8",".","3">>, <<"7">>),
    <<" ">> \o Bare(ID_delivered_1, <<"7">>),
    <<"/">> \o WithUnit(ID_max_power, <<"7">>, <<"k","W">>) }

\* parse_float(id) applied to id(v*unit) and to id(v).
CallExtract(f, lit, u) ==
    /\ call' = [fn |-> "parse_float", field |-> f, lit |-> lit, unit |-> u,
                unit_ret |-> parse_float(FieldId[f], WithUnit(FieldId[f], lit.text, u)),
                bare_ret |-> parse_float(FieldId[f], Bare(FieldId[f], lit.text))]
    /\ UNCHANGED <<lines, frame, emitted, wpc, tasks, store, clock, qpc, qnow, resp, vresp>>

\* The nine extractions of one run of the closure's else branch.
CallExtractAll(line) ==
    /\ call' = [fn |-> "extract_all", line |-> line,
                rets |-> [f \in FieldNames |-> parse_float(FieldId[f], line)],
                frame |-> ApplyLine(DataFrameDefault, line)]
    /\ UNCHANGED <<lines, frame, emitted, wpc, tasks, store, clock, qpc, qnow, resp, vresp>>

NextExtract ==
    \/ \E f \in FieldNames, lit \in Literals, u \in Units : CallExtract(f, lit, u)
    \/ \E line \in OtherLines : CallExtractAll(line)

SpecExtract == Init /\ [][NextExtract]_vars

(* C18: for each of the nine identifiers and each numeric literal v,       *)
(* extraction on id(v*unit), whatever the unit text, and on id(v) both     *)
(* succeed with the value v; on a line that does not start with one of the *)
(* nine identifiers, extraction is absent for all nine.                    *)
C18_UnitOptional ==
    /\ call.fn = "parse_float"
         => /\ call.unit_ret.ok /\ call.bare_ret.ok
            /\ call.unit_ret.val = call.lit.val
            /\ call.bare_ret.val = call.lit.val
    /\ call.fn = "extract_all"
         => /\ \A f \in FieldNames : ~call.rets[f].ok
            /\ call.frame = DataFrameDefault

\* The literal was read from a line whose unit text holds a ")".
C18_Witness ==
    /\ call.fn = "parse_float"
    /\ call.unit = <<"k",")","W">>
    /\ call.field = "current_tariff"
    /\ call.unit_ret.ok /\ call.unit_ret.val = 2000
    /\ call.unit_ret.rest = <<"W",")">>
    /\ call.bare_ret.rest = <<>>

----------------------------------------------------------------------------
(* Ingestion under fair scheduling *)

MaxLiveLines == 3

\* The pipeline with a store that accepts every insert.
NextLive ==
    \/ \E line \in SysLines : ReadLine(line, MaxLiveLines)
    \/ ReadEOF
    \/ Tick
    \/ \E i \in DOMAIN tasks : TaskStamp(i)
    \/ \E i \in DOMAIN tasks : TaskInsertOk(i)

\* The runtime polls every spawned task until it completes: each task's two
\* steps are taken once they stay possible.
TaskFairness ==
    \A i \in 1..MaxLiveLines :
        /\ WF_vars(i \in DOMAIN tasks /\ TaskStamp(i))
        /\ WF_vars(i \in DOMAIN tasks /\ TaskInsertOk(i))

SpecLive == Init /\ [][NextLive]_vars /\ TaskFairness

(* C19: with every spawned insert task scheduled fairly and a store that   *)
(* accepts inserts, each emitted record is eventually in the table as one  *)
(* row carrying its nine fields unchanged; the row's timestamp is the      *)
(* clock reading of the task's own step, taken after the record was        *)
(* emitted, not the reading at the time the terminator was read.           *)
C19_EventuallyStored ==
    /\ \A k \in 1..MaxLiveLines :
          (Len(emitted) >= k)
             ~> (/\ k \in Done(tasks)
                 /\ \E r \in DOMAIN store : store[r] = Row(tasks[k].now, emitted[k]))
    /\ [](/\ Len(store) = Cardinality(Done(tasks))
          /\ \A r \in DOMAIN store :
                \E k \in Done(tasks) : store[r] = Row(tasks[k].now, emitted[k]))
    /\ [][\A k \in DOMAIN tasks' :
             /\ (k \notin DOMAIN tasks) => tasks'[k].st = "spawned"
             /\ (k \in DOMAIN tasks /\ tasks[k].st = "spawned"
                   /\ tasks'[k].st # "spawned")
                  => tasks'[k].now = clock
             /\ (k \in DOMAIN tasks /\ tasks[k].st # "spawned")
                  => tasks'[k].now = tasks[k].now]_vars

\* Both records are stored, and the record emitted first carries the later
\* timestamp: its task ran after the clock had moved on.
C19_Witness ==
    /\ Len(emitted) >= 2
    /\ emitted[1] # emitted[2]
    /\ Done(tasks) = {1, 2}
    /\ store = <<Row(0, emitted[2]), Row(70, emitted[1])>>

----------------------------------------------------------------------------
(* Ordering of the selected rows *)

(* C20: whenever the handler selected all three start rows, their          *)
(* timestamps are ordered start_15 <= start_5 <= start_1, one `end` row is *)
(* bound, and an answer's three rates are all computed from that one `end` *)
(* row: against start_1, start_5 and start_15.                             *)
C20_StartsOrdered ==
    (IsSome(resp.sel.start_15) /\ IsSome(resp.sel.start_5) /\ IsSome(resp.sel.start_1))
    => /\ Unwrap(resp.sel.start_15).timestamp <= Unwrap(resp.sel.start_5).timestamp
       /\ Unwrap(resp.sel.start_5).timestamp <= Unwrap(resp.sel.start_1).timestamp
       /\ IsSome(resp.sel.end)
       /\ resp.kind \in {"ok", "panic"}
       /\ resp.kind = "ok"
            => /\ Len(resp.body) = 3
               /\ \A n \in 1..3 :
                     resp.body[n] =
                        Format0(watts_since(Unwrap(resp.sel.end),
                                            Unwrap(StartOf(resp.sel, CASE n = 1 -> 1
                                                                       [] n = 2 -> 5
                                                                       [] OTHER -> 15))))

\* Three different rows were selected as the three starts.
C20_Witness ==
    /\ IsSome(resp.sel.start_15) /\ IsSome(resp.sel.start_5) /\ IsSome(resp.sel.start_1)
    /\ IsSome(resp.sel.end)
    /\ Unwrap(resp.sel.start_15).timestamp < Unwrap(resp.sel.start_5).timestamp
    /\ Unwrap(resp.sel.start_5).timestamp < Unwrap(resp.sel.start_1).timestamp

====
